---------------------------- MODULE Spec2Model ----------------------------
(***************************************************************************)
(* Model of ptwiki2text: the wikitext markup filter (wiki_parser.py) and   *)
(* the text normalizer and tokenizer (corpus_builder.py).                  *)
(*                                                                         *)
(* A Python string is a sequence of characters; a character is a one-      *)
(* character TLA+ string, except the non-ASCII ones, which carry their     *)
(* HTML entity name ("hellip" is U+2026, "laquo" is U+00AB, ...), and the  *)
(* grave accent, written "grave".                                          *)
(* A position is a 1-based index; a match is given by its end, the index   *)
(* of the first character after it, and 0 stands for "no match here".      *)
(***************************************************************************)
EXTENDS Integers, Sequences, FiniteSets, TLC

VARIABLES
    pc,                 \* position of the driver: "start", "once", "twice", "done"
    fn,                 \* the function the behaviour calls
    text,               \* the argument string
    correct,            \* clean_text's flag
    wiki,               \* tokenize's flag
    min_sentence_size,  \* tokenize's threshold
    ret,                \* the value returned by the (first) call
    ret2,               \* the value returned by calling clean_text on ret
    sentences,          \* tokenize: the list "sentences" once the lines are segmented
    candidates,         \* tokenize: every new_sent scanned, before the size filter
    rounds,             \* filter_markup: how many times the template loop ran its body
    stream,             \* build_corpus_from_wiki: the articles get_articles yields, by length
    consumed,           \* how many articles the for loop has taken from the generator
    article_num,        \* the loop's counter; -1 while the name is unbound
    articles,           \* the list "articles", each article named by its place in stream
    size,               \* the characters gathered since the last file
    file_num,           \* the number of the next file
    total_articles,     \* the parameter: the maximum number of articles
    one_per_file,       \* the parameter: one article per file
    saved               \* the calls of save_articles so far: <<articles, file_num>>

\* the local state of build_corpus_from_wiki
bvars == <<stream, consumed, article_num, articles, size, file_num, total_articles,
           one_per_file, saved>>

vars == <<pc, fn, text, correct, wiki, min_sentence_size, ret, ret2, sentences,
          candidates, rounds, stream, consumed, article_num, articles, size, file_num,
          total_articles, one_per_file, saved>>

\* build_corpus_from_wiki is not running
NoBuild ==
    /\ stream = <<>>
    /\ consumed = 0
    /\ article_num = -1
    /\ articles = <<>>
    /\ size = 0
    /\ file_num = 1
    /\ total_articles = 0
    /\ one_per_file = TRUE
    /\ saved = <<>>

-----------------------------------------------------------------------------
(* Character classes *)

LowerLetters == {"a","b","c","d","e","f","g","h","i","j","k","l","m",
                 "n","o","p","q","r","s","t","u","v","w","x","y","z"}
UpperLetters == {"A","B","C","D","E","F","G","H","I","J","K","L","M",
                 "N","O","P","Q","R","S","T","U","V","W","X","Y","Z"}
AsciiLetters == LowerLetters \cup UpperLetters
\* non-ASCII letters that occur in the patterns of the program
UniLetters == {"ccedil", "atilde", "eacute", "otilde"}
Digits == {"0","1","2","3","4","5","6","7","8","9"}
\* \w without and with re.UNICODE
Word == AsciiLetters \cup Digits \cup {"_"}
UWord == Word \cup UniLetters
\* [^\W\d_] without and with re.UNICODE
Alpha == AsciiLetters
UAlpha == AsciiLetters \cup UniLetters
\* \s
Space == {" ", "\n", "\t"}

-----------------------------------------------------------------------------
(* re.sub, re.subn and the string primitives they rest on *)

Min(S) == CHOOSE x \in S : \A y \in S : x <= y
Max(S) == CHOOSE x \in S : \A y \in S : x >= y

\* the literal lit occurs in s at position i
At(s, i, lit) ==
    /\ i >= 1
    /\ i + Len(lit) - 1 <= Len(s)
    /\ \A k \in 1..Len(lit) : s[i + k - 1] = lit[k]

\* the first position >= i where lit occurs in s, or 0
Find(s, i, lit) ==
    LET J == {j \in i..(Len(s) - Len(lit) + 1) : At(s, j, lit)}
    IN IF J = {} THEN 0 ELSE Min(J)

\* the last position >= i where lit occurs in s, or 0
FindLast(s, i, lit) ==
    LET J == {j \in i..(Len(s) - Len(lit) + 1) : At(s, j, lit)}
    IN IF J = {} THEN 0 ELSE Max(J)

\* end of the longest run of characters of class C that starts at i (a greedy C*)
Span(s, i, C) ==
    LET J == {j \in i..Len(s) : s[j] \notin C}
    IN IF J = {} THEN Len(s) + 1 ELSE Min(J)

\* the character at i exists and lies in the class C
IsAt(s, i, C) == i >= 1 /\ i <= Len(s) /\ s[i] \in C

\* s[i..j-1]
Slice(s, i, j) == IF j <= i THEN <<>> ELSE SubSeq(s, i, j - 1)

Contains(s, lit) == Find(s, 1, lit) # 0

StartsWith(s, lit) == At(s, 1, lit)

\* the first position >= i where a match of the pattern starts, or 0
NextMatch(s, m, i) ==
    LET J == {j \in i..Len(s) : m[j] # 0}
    IN IF J = {} THEN 0 ELSE Min(J)

\* re.sub(pattern, repl, s): m[i] is the end of the pattern's match at i (0: none),
\* r[i] the replacement of that match; matches are taken left to right and do
\* not overlap.  Position Len(s)+1 can hold no match: every pattern of the
\* program consumes at least one character.
RECURSIVE SubFrom(_, _, _, _)
SubFrom(s, m, r, i) ==
    LET j == NextMatch(s, m, i)
    IN IF j = 0 THEN Slice(s, i, Len(s) + 1)
       ELSE Slice(s, i, j) \o r[j] \o SubFrom(s, m, r, m[j])

Sub(s, m, r) == SubFrom(s, m, r, 1)

\* the number of substitutions re.subn reports
RECURSIVE CountFrom(_, _, _)
CountFrom(s, m, i) ==
    LET j == NextMatch(s, m, i)
    IN IF j = 0 THEN 0 ELSE 1 + CountFrom(s, m, m[j])

\* the positions where the matches of re.sub start
RECURSIVE MatchesFrom(_, _, _)
MatchesFrom(s, m, i) ==
    LET j == NextMatch(s, m, i)
    IN IF j = 0 THEN {} ELSE {j} \cup MatchesFrom(s, m, m[j])

-----------------------------------------------------------------------------
(* More primitives, for the patterns of wiki_parser.filter_markup *)

\* end of the longest run of characters outside X that starts at i (a greedy [^X]*)
SpanNot(s, i, X) ==
    LET J == {j \in i..Len(s) : s[j] \in X}
    IN IF J = {} THEN Len(s) + 1 ELSE Min(J)

\* ASCII case folding, as re.IGNORECASE does without re.UNICODE
LowerOf ==
    ("A" :> "a") @@ ("B" :> "b") @@ ("C" :> "c") @@ ("D" :> "d") @@ ("E" :> "e") @@
    ("F" :> "f") @@ ("G" :> "g") @@ ("H" :> "h") @@ ("I" :> "i") @@ ("J" :> "j") @@
    ("K" :> "k") @@ ("L" :> "l") @@ ("M" :> "m") @@ ("N" :> "n") @@ ("O" :> "o") @@
    ("P" :> "p") @@ ("Q" :> "q") @@ ("R" :> "r") @@ ("S" :> "s") @@ ("T" :> "t") @@
    ("U" :> "u") @@ ("V" :> "v") @@ ("W" :> "w") @@ ("X" :> "x") @@ ("Y" :> "y") @@
    ("Z" :> "z")
Lower(c) == IF c \in UpperLetters THEN LowerOf[c] ELSE c

\* the literal lit, written in lower case, occurs in s at i up to letter case
AtCI(s, i, lit) ==
    /\ i >= 1
    /\ i + Len(lit) - 1 <= Len(s)
    /\ \A k \in 1..Len(lit) : Lower(s[i + k - 1]) = lit[k]

FindCI(s, i, lit) ==
    LET J == {j \in i..(Len(s) - Len(lit) + 1) : AtCI(s, j, lit)}
    IN IF J = {} THEN 0 ELSE Min(J)

\* a dot without re.DOTALL matches no line break: s[i..j-1] holds none
NoNewline(s, i, j) == \A k \in i..(j - 1) : s[k] # "\n"

\* the replacement of every match by the same string
Const(s, str) == [i \in 1..Len(s) |-> str]

\* the replacement of every match by nothing
Deleted(s) == Const(s, <<>>)

\* re.sub(pattern, '', s) for the pattern whose match at i ends at M(s, i)
Delete(s, M(_, _)) == Sub(s, [i \in 1..Len(s) |-> M(s, i)], Deleted(s))

\* re.sub(pattern, str, s) for a replacement str without group references
Replace(s, M(_, _), str) == Sub(s, [i \in 1..Len(s) |-> M(s, i)], Const(s, str))

\* the sentinels
MathSentinel == <<"_", "_", "M", "A", "T", "H", "_", "_">>
IpaSentinel == <<"_", "_", "I", "P", "A", "_", "_">>
FileSentinel == <<"_", "_", "F", "I", "L", "E", "_", "_">>
CodeSentinel == <<"_", "_", "C", "O", "D", "E", "_", "_">>
TemplateSentinel == <<"_", "_", "T", "E", "M", "P", "L", "A", "T", "E", "_", "_">>
LinkSentinel == <<"_", "_", "L", "I", "N", "K", "_", "_">>

-----------------------------------------------------------------------------
(* wiki_parser.filter_markup: the substitutions before the template loops *)

RedirectMarker == <<"#","R","E","D","I","R","E","C","I","O","N","A","M","E","N","T","O">>
DisambiguationMarker ==
    <<"{","{","d","e","s","a","m","b","i","g","u","a","ccedil","atilde","o">>

\* a filter_markup without its first test
NeverUnwanted(t) == FALSE

\* t.startswith('#REDIRECIONAMENTO') or t.startswith('#REDIRECIONAMENTO')
\*     or t.startswith(u'{{desambiguação')
IsUnwantedPage(t) ==
    \/ StartsWith(t, RedirectMarker)
    \/ StartsWith(t, RedirectMarker)
    \/ StartsWith(t, DisambiguationMarker)

\* (?s)<!--.*?-->
CommentEnd(s, i) ==
    LET f == Find(s, i + 4, <<"-", "-", ">">>)
    IN IF At(s, i, <<"<", "!", "-", "-">>) /\ f # 0 THEN f + 3 ELSE 0

\* \n\[\[[a-z][a-z][\w-]*:[^:\]]+\]\]   one line of the language list, from the \n at p
LanguageLinkEnd(s, p) ==
    LET q == Span(s, p + 5, Word \cup {"-"})
        r == SpanNot(s, q + 1, {":", "]"})
    IN IF /\ At(s, p, <<"\n", "[", "[">>)
          /\ IsAt(s, p + 3, LowerLetters) /\ IsAt(s, p + 4, LowerLetters)
          /\ IsAt(s, q, {":"})
          /\ r > q + 1
          /\ At(s, r, <<"]", "]">>)
       THEN r + 2 ELSE 0

\* the ends of the successive language links from p on: (...)+ taken greedily
RECURSIVE LanguageLinkEnds(_, _)
LanguageLinkEnds(s, p) ==
    LET e == LanguageLinkEnd(s, p)
    IN IF e = 0 THEN <<>> ELSE <<e>> \o LanguageLinkEnds(s, e)

\* ($|\n) at p: $ holds at the end and before a final line break, and consumes nothing
LineEndAt(s, p) ==
    IF p = Len(s) + 1 \/ (p = Len(s) /\ s[p] = "\n") THEN p
    ELSE IF IsAt(s, p, {"\n"}) THEN p + 1
    ELSE 0

\* (\n\[\[[a-z][a-z][\w-]*:[^:\]]+\]\])+($|\n): when the tail fails after the
\* longest run of links, the run gives its last link back, whose \n is the tail
LanguageListEnd(s, i) ==
    LET es == LanguageLinkEnds(s, i)
        k == Len(es)
    IN IF k = 0 THEN 0
       ELSE IF LineEndAt(s, es[k]) # 0 THEN LineEndAt(s, es[k])
       ELSE IF k >= 2 THEN es[k - 1] + 1
       ELSE 0

\* (?i)\[\[:?Categoria:(.*?)\]\]
CategoryEnd(s, i) ==
    LET a == IF IsAt(s, i + 2, {":"}) THEN i + 3 ELSE i + 2
        b == a + 10
        f == Find(s, b, <<"]", "]">>)
    IN IF /\ At(s, i, <<"[", "[">>)
          /\ AtCI(s, a, <<"c","a","t","e","g","o","r","i","a",":">>)
          /\ f # 0
          /\ NoNewline(s, b, f)
       THEN f + 2 ELSE 0

\* the titles of the sections removed with their content
VerTambem == <<"v","e","r"," ","t","a","m","b","eacute","m">>
Bibliografia == <<"b","i","b","l","i","o","g","r","a","f","i","a">>
LigacoesExternas ==
    <<"l","i","g","a","ccedil","otilde","e","s"," ","e","x","t","e","r","n","a","s">>

\* (?is)\n(=+)\s*(?:{{)?TITLE(?:}})?\s*\1 : the position after the heading, or 0.
\* (=+) takes the whole run of = signs: after fewer, the next sign cannot start
\* the rest of the pattern.
SectionHeadEnd(s, i, title) ==
    LET e1 == Span(s, i + 1, {"="})
        lvl == e1 - (i + 1)
        a == Span(s, e1, Space)
        b == IF At(s, a, <<"{", "{">>) THEN a + 2 ELSE a
        c == b + Len(title)
        d == IF At(s, c, <<"}", "}">>) THEN c + 2 ELSE c
        e == Span(s, d, Space)
    IN IF /\ IsAt(s, i, {"\n"})
          /\ lvl >= 1
          /\ AtCI(s, b, title)
          /\ e + lvl - 1 <= Len(s)
          /\ \A k \in e..(e + lvl - 1) : s[k] = "="
       THEN e + lvl ELSE 0

\* the number of = signs of the heading at i
SectionLevel(s, i) == Span(s, i + 1, {"="}) - (i + 1)

\* (\n\1\s|$) at q: the end of the match, or 0
SectionTailEnd(s, q, lvl) ==
    IF /\ IsAt(s, q, {"\n"})
       /\ q + lvl <= Len(s)
       /\ \A k \in (q + 1)..(q + lvl) : s[k] = "="
       /\ IsAt(s, q + lvl + 1, Space)
    THEN q + lvl + 2
    ELSE IF q = Len(s) + 1 \/ (q = Len(s) /\ s[q] = "\n") THEN q
    ELSE 0

\* .*?(\n\1\s|$) from h: the first position where the tail matches
SectionTailStart(s, h, lvl) ==
    Min({q \in h..(Len(s) + 1) : SectionTailEnd(s, q, lvl) # 0})

\* (?is)\n(=+)\s*(?:{{)?TITLE(?:}})?\s*\1.*?(\n\1\s|$)
SectionEnd(s, i, title) ==
    LET h == SectionHeadEnd(s, i, title)
    IN IF h = 0 THEN 0
       ELSE SectionTailEnd(s, SectionTailStart(s, h, SectionLevel(s, i)), SectionLevel(s, i))

\* the replacement '\\2': what the tail matched
SectionTail(s, i, title) ==
    LET q == SectionTailStart(s, SectionHeadEnd(s, i, title), SectionLevel(s, i))
    IN Slice(s, q, SectionEnd(s, i, title))

RemoveSection(s, title) ==
    Sub(s, [i \in 1..Len(s) |-> SectionEnd(s, i, title)],
           [i \in 1..Len(s) |-> SectionTail(s, i, title)])

\* <name(.*?)>.*?</name> with re.DOTALL: the first > after the name, then the
\* first closing tag
LooseTagEnd(s, i, open, close) ==
    LET g == Find(s, i + Len(open), <<">">>)
        f == IF g = 0 THEN 0 ELSE Find(s, g + 1, close)
    IN IF At(s, i, open) /\ g # 0 /\ f # 0 THEN f + Len(close) ELSE 0

\* (?s)<math\s*>.*?</math>
MathEnd(s, i) ==
    LET j == Span(s, i + 5, Space)
        f == Find(s, j + 1, <<"<","/","m","a","t","h",">">>)
    IN IF At(s, i, <<"<","m","a","t","h">>) /\ IsAt(s, j, {">"}) /\ f # 0
       THEN f + 7 ELSE 0

\* (?s)<ref([^>]*?)/>
EmptyRefEnd(s, i) ==
    LET g == Find(s, i + 4, <<">">>)
    IN IF At(s, i, <<"<","r","e","f">>) /\ g # 0 /\ g - 1 >= i + 4 /\ s[g - 1] = "/"
       THEN g + 1 ELSE 0

\* (?s)<ref(.*?)>.*?</ref>
RefEnd(s, i) == LooseTagEnd(s, i, <<"<","r","e","f">>, <<"<","/","r","e","f",">">>)

\* <references/>
ReferencesTag == <<"<","r","e","f","e","r","e","n","c","e","s","/",">">>
ReferencesEnd(s, i) == IF At(s, i, ReferencesTag) THEN i + Len(ReferencesTag) ELSE 0

\* {{IPA2\|.*?}}
IpaEnd(s, i) ==
    LET f == Find(s, i + 7, <<"}", "}">>)
    IN IF At(s, i, <<"{","{","I","P","A","2","|">>) /\ f # 0 /\ NoNewline(s, i + 7, f)
       THEN f + 2 ELSE 0

\* {{{[^}{]*}}}
ParameterEnd(s, i) ==
    LET j == SpanNot(s, i + 3, {"{", "}"})
    IN IF At(s, i, <<"{","{","{">>) /\ At(s, j, <<"}","}","}">>) THEN j + 3 ELSE 0

\* (?i){{carece de fontes(.*?)}}
CareceDeFontes ==
    <<"{","{","c","a","r","e","c","e"," ","d","e"," ","f","o","n","t","e","s">>
CareceEnd(s, i) ==
    LET a == i + Len(CareceDeFontes)
        f == Find(s, a, <<"}", "}">>)
    IN IF AtCI(s, i, CareceDeFontes) /\ f # 0 /\ NoNewline(s, a, f) THEN f + 2 ELSE 0

\* lines 108-117: comments, language links, categories and closing sections
StripStructure(t) ==
    LET t108 == Delete(t, CommentEnd)
        t110 == Delete(t108, LanguageListEnd)
        t112 == Delete(t110, CategoryEnd)
        t115 == RemoveSection(t112, VerTambem)
        t116 == RemoveSection(t115, Bibliografia)
    IN RemoveSection(t116, LigacoesExternas)

\* lines 121-137: formulas, references and the templates handled by name
StripReferences(t) ==
    LET t121 == Replace(t, MathEnd, MathSentinel)
        t124 == Delete(t121, EmptyRefEnd)
        t125 == Delete(t124, RefEnd)
        t128 == Delete(t125, ReferencesEnd)
        t132 == Replace(t128, IpaEnd, IpaSentinel)
        t135 == Delete(t132, ParameterEnd)
    IN Delete(t135, CareceEnd)

-----------------------------------------------------------------------------
(* wiki_parser.filter_markup: the two loops that run until nothing changes *)

\* {{[^}{]*}}
TemplateEnd(s, i) ==
    LET j == SpanNot(s, i + 2, {"{", "}"})
    IN IF At(s, i, <<"{","{">>) /\ At(s, j, <<"}","}">>) THEN j + 2 ELSE 0

TemplateMatches(s) == [i \in 1..Len(s) |-> TemplateEnd(s, i)]

\* while check: t, check = re.subn(r'{{[^}{]*}}', '__TEMPLATE__', t)
\* the text when the loop ends, and the number of times its body ran
RECURSIVE TemplateLoop(_, _)
TemplateLoop(t, n) ==
    IF CountFrom(t, TemplateMatches(t), 1) = 0
    THEN [t |-> t, iterations |-> n + 1]
    ELSE TemplateLoop(Sub(t, TemplateMatches(t), Const(t, TemplateSentinel)), n + 1)

\* (?sx) {\| .* \|}
TableEnd(s, i) ==
    LET f == FindLast(s, i + 2, <<"|", "}">>)
    IN IF At(s, i, <<"{","|">>) /\ f # 0 THEN f + 2 ELSE 0

TableMatches(s) == [i \in 1..Len(s) |-> TableEnd(s, i)]

\* while check: t, check = re.subn(r'{\|.*\|}', '__TEMPLATE__', t)
RECURSIVE TableLoop(_, _)
TableLoop(t, n) ==
    IF CountFrom(t, TableMatches(t), 1) = 0
    THEN [t |-> t, iterations |-> n + 1]
    ELSE TableLoop(Sub(t, TableMatches(t), Const(t, TemplateSentinel)), n + 1)

-----------------------------------------------------------------------------
(* wiki_parser.filter_markup: headings, emphasis and links (lines 156-184) *)

\* the next line break at or after i, or 0
NextNewline(s, i) == Find(s, i, <<"\n">>)

\* \n(?P<level>=+) *(?P<title>[^\n]*)\1 *(?=\n): the line after the \n at i begins
\* with an = sign and, its trailing blanks apart, ends with another one; a
\* level of one sign matches whenever a longer one does. The closing line
\* break is not consumed.
HeadingEnd(s, i) ==
    LET eol == NextNewline(s, i + 1)
        last == Max({i} \cup {k \in (i + 1)..(eol - 1) : s[k] # " "})
    IN IF /\ IsAt(s, i, {"\n"})
          /\ eol # 0
          /\ IsAt(s, i + 1, {"="})
          /\ last >= i + 2
          /\ s[last] = "="
       THEN eol ELSE 0

\* Q(.+?)Q for a mark Q of n apostrophes: the first closing mark that leaves
\* a character in between, with no line break before it
EmphasisClose(s, i, n) ==
    LET q == [k \in 1..n |-> "'"]
        f == Find(s, i + n + 1, q)
    IN IF At(s, i, q) /\ f # 0 /\ NoNewline(s, i + n, f) THEN f ELSE 0

\* three apostrophes (.+?) three apostrophes, and the same with two, replaced by \1
RemoveEmphasis(s, n) ==
    Sub(s, [i \in 1..Len(s) |-> IF EmphasisClose(s, i, n) = 0 THEN 0
                                ELSE EmphasisClose(s, i, n) + n],
           [i \in 1..Len(s) |-> Slice(s, i + n, EmphasisClose(s, i, n))])

Blank == {" ", "\t"}

\* (?u)^ \t]*==[ \t]*(\w)[ \t]*==[ \t]*\n : the position of the group, or 0.
\* As written the pattern asks for the start of the text, a blank, a tab and
\* any number of closing brackets before the first ==.
ImageHeadingLetter(s, i) ==
    LET j == Span(s, 3, {"]"})
        k == Span(s, j + 2, Blank)
        l == Span(s, k + 1, Blank)
        e == Span(s, l + 2, Blank)
    IN IF /\ i = 1
          /\ At(s, 1, <<" ", "\t">>)
          /\ At(s, j, <<"=", "=">>)
          /\ IsAt(s, k, UWord)
          /\ At(s, l, <<"=", "=">>)
          /\ IsAt(s, e, {"\n"})
       THEN k ELSE 0

ImageHeadingEnd(s, i) ==
    LET k == ImageHeadingLetter(s, i)
    IN IF k = 0 THEN 0
       ELSE Span(s, Span(s, k + 1, Blank) + 2, Blank) + 1

\* '<h2>(Image: \\1)</h2>'
ImageHeading(s, i) ==
    <<"<","h","2",">","(","I","m","a","g","e",":"," ">>
        \o <<s[ImageHeadingLetter(s, i)]>> \o <<")","<","/","h","2",">">>

ReplaceImageHeading(s) ==
    Sub(s, [i \in 1..Len(s) |-> ImageHeadingEnd(s, i)],
           [i \in 1..Len(s) |-> ImageHeading(s, i)])

\* ([Aa]rquivo|[Ii]magem?|[Ff]icheiro|[Ff]ile): the position after a name of
\* the file namespace that starts at i, or 0
FileNamespaceEnd(s, i) ==
    IF IsAt(s, i, {"A", "a"}) /\ At(s, i + 1, <<"r","q","u","i","v","o">>) THEN i + 7
    ELSE IF IsAt(s, i, {"I", "i"}) /\ At(s, i + 1, <<"m","a","g","e">>)
         THEN (IF IsAt(s, i + 5, {"m"}) THEN i + 6 ELSE i + 5)
    ELSE IF IsAt(s, i, {"F", "f"}) /\ At(s, i + 1, <<"i","c","h","e","i","r","o">>) THEN i + 8
    ELSE IF IsAt(s, i, {"F", "f"}) /\ At(s, i + 1, <<"i","l","e">>) THEN i + 4
    ELSE 0

\* re.search("([Aa]rquivo|[Ii]magem?|[Ff]icheiro|[Ff]ile):", txt)
IsFileLink(txt) ==
    \E i \in 1..Len(txt) :
        FileNamespaceEnd(txt, i) # 0 /\ IsAt(txt, FileNamespaceEnd(txt, i), {":"})

\* link(m) for a match with one group
link1(txt) == IF IsFileLink(txt) THEN <<>> ELSE txt

\* link(m) for a match with two groups
link2(first, second) == second

\* (?s)\[\[([^][|]*?)\]\]: the position of the closing brackets, or 0
PlainLinkClose(s, i) ==
    LET j == SpanNot(s, i + 2, {"]", "[", "|"})
    IN IF At(s, i, <<"[", "[">>) /\ At(s, j, <<"]", "]">>) THEN j ELSE 0

ReplacePlainLinks(s) ==
    Sub(s, [i \in 1..Len(s) |-> IF PlainLinkClose(s, i) = 0 THEN 0
                                ELSE PlainLinkClose(s, i) + 2],
           [i \in 1..Len(s) |-> link1(Slice(s, i + 2, PlainLinkClose(s, i)))])

\* (?s)\[\[([Aa]nexo:[^]|[:]*)\|([^][]*)\]\]: the position of the bar, or 0
AnnexLinkBar(s, i) ==
    LET j == SpanNot(s, i + 8, {"]", "|", "[", ":"})
        k == SpanNot(s, j + 1, {"]", "["})
    IN IF /\ At(s, i, <<"[", "[">>)
          /\ IsAt(s, i + 2, {"A", "a"})
          /\ At(s, i + 3, <<"n","e","x","o",":">>)
          /\ IsAt(s, j, {"|"})
          /\ At(s, k, <<"]", "]">>)
       THEN j ELSE 0

\* the match of a two-group link pattern whose bar is at b and whose second
\* group excludes the characters of X: the position of the closing brackets
SecondGroupEnd(s, b, X) == SpanNot(s, b + 1, X)

ReplaceAnnexLinks(s) ==
    Sub(s, [i \in 1..Len(s) |-> IF AnnexLinkBar(s, i) = 0 THEN 0
                                ELSE SecondGroupEnd(s, AnnexLinkBar(s, i), {"]", "["}) + 2],
           [i \in 1..Len(s) |->
               link2(Slice(s, i + 2, AnnexLinkBar(s, i)),
                     Slice(s, AnnexLinkBar(s, i) + 1,
                           SecondGroupEnd(s, AnnexLinkBar(s, i), {"]", "["})))])

\* (?s)\[\[[Mm]ultim.dia:(.*?)\]\]
MultimediaEnd(s, i) ==
    LET f == Find(s, i + 13, <<"]", "]">>)
    IN IF /\ At(s, i, <<"[", "[">>)
          /\ IsAt(s, i + 2, {"M", "m"})
          /\ At(s, i + 3, <<"u","l","t","i","m">>)
          /\ i + 8 <= Len(s)
          /\ At(s, i + 9, <<"d","i","a",":">>)
          /\ f # 0
       THEN f + 2 ELSE 0

\* (?s)\[\[(:?[Ii]mage:[^][:]*)\|([^][]*)\]\]: the position of the bar, or 0.
\* The first class admits bars, so the group runs to the last bar before the
\* first bracket or colon.
ImageLinkBar(s, i) ==
    LET a == IF IsAt(s, i + 2, {":"}) THEN i + 3 ELSE i + 2
        b == a + 6
        R == SpanNot(s, b, {"]", "[", ":"})
        P == {p \in b..(R - 1) : s[p] = "|"}
    IN IF /\ At(s, i, <<"[", "[">>)
          /\ IsAt(s, a, {"I", "i"})
          /\ At(s, a + 1, <<"m","a","g","e",":">>)
          /\ P # {}
          /\ At(s, SecondGroupEnd(s, Max(P), {"]", "["}), <<"]", "]">>)
       THEN Max(P) ELSE 0

ReplaceImageLinks(s) ==
    Sub(s, [i \in 1..Len(s) |-> IF ImageLinkBar(s, i) = 0 THEN 0
                                ELSE SecondGroupEnd(s, ImageLinkBar(s, i), {"]", "["}) + 2],
           [i \in 1..Len(s) |->
               link2(Slice(s, i + 2, ImageLinkBar(s, i)),
                     Slice(s, ImageLinkBar(s, i) + 1,
                           SecondGroupEnd(s, ImageLinkBar(s, i), {"]", "["})))])

\* (?s)\[\[([^][|]*)\|([^][|]*)\]\]: the position of the bar, or 0
PipedLinkBar(s, i) ==
    LET j == SpanNot(s, i + 2, {"]", "[", "|"})
    IN IF /\ At(s, i, <<"[", "[">>)
          /\ IsAt(s, j, {"|"})
          /\ At(s, SecondGroupEnd(s, j, {"]", "[", "|"}), <<"]", "]">>)
       THEN j ELSE 0

ReplacePipedLinks(s) ==
    Sub(s, [i \in 1..Len(s) |-> IF PipedLinkBar(s, i) = 0 THEN 0
                                ELSE SecondGroupEnd(s, PipedLinkBar(s, i), {"]", "[", "|"}) + 2],
           [i \in 1..Len(s) |->
               link2(Slice(s, i + 2, PipedLinkBar(s, i)),
                     Slice(s, PipedLinkBar(s, i) + 1,
                           SecondGroupEnd(s, PipedLinkBar(s, i), {"]", "[", "|"})))])

\* (?:https?|ftp):// at i: the position after it, or 0
SchemeEnd(s, i) ==
    LET a == IF At(s, i, <<"h","t","t","p">>)
             THEN (IF IsAt(s, i + 4, {"s"}) THEN i + 5 ELSE i + 4)
             ELSE IF At(s, i, <<"f","t","p">>) THEN i + 3
             ELSE 0
    IN IF a # 0 /\ At(s, a, <<":", "/", "/">>) THEN a + 3 ELSE 0

\* [^][\s]+ from u: the end of the run, or 0 when it is empty
UrlEnd(s, u) ==
    LET e == SpanNot(s, u, {"]", "["} \cup Space)
    IN IF u # 0 /\ e > u THEN e ELSE 0

\* \[(?:https?|ftp)://[^][\s]+?\s+(.+?)\]: the start of the group, or 0.
\* \s+ takes as much space as leaves the group a character; the group then
\* runs to the first ] after its first character, on one line.
LabelStart(s, i) ==
    LET U == UrlEnd(s, SchemeEnd(s, i + 1))
        W == Span(s, U, Space)
        V == {w \in (U + 1)..W :
                 LET f == Find(s, w + 1, <<"]">>)
                 IN f # 0 /\ NoNewline(s, w, f)}
    IN IF IsAt(s, i, {"["}) /\ U # 0 /\ V # {} THEN Max(V) ELSE 0

LabelEnd(s, i) == Find(s, LabelStart(s, i) + 1, <<"]">>)

ReplaceLabelledLinks(s) ==
    Sub(s, [i \in 1..Len(s) |-> IF LabelStart(s, i) = 0 THEN 0 ELSE LabelEnd(s, i) + 1],
           [i \in 1..Len(s) |-> Slice(s, LabelStart(s, i), LabelEnd(s, i))])

\* \[(?:https?|ftp)://[^][\s]+\]
BracketedUrlEnd(s, i) ==
    LET U == UrlEnd(s, SchemeEnd(s, i + 1))
    IN IF IsAt(s, i, {"["}) /\ U # 0 /\ IsAt(s, U, {"]"}) THEN U + 1 ELSE 0

\* (https?|ftp)://[^][\s]+
BareUrlEnd(s, i) == UrlEnd(s, SchemeEnd(s, i))

\* \n---- replaced by \n
RuleEnd(s, i) == IF At(s, i, <<"\n","-","-","-","-">>) THEN i + 5 ELSE 0

\* (?msx)\[\[(?:[Aa]rquivo|[Ii]magem?|[Ff]icheiro|[Ff]ile):(.*?)\]\]
FileLinkEnd(s, i) ==
    LET a == FileNamespaceEnd(s, i + 2)
        f == Find(s, a + 1, <<"]", "]">>)
    IN IF At(s, i, <<"[", "[">>) /\ a # 0 /\ IsAt(s, a, {":"}) /\ f # 0
       THEN f + 2 ELSE 0

\* lines 156-167
HeadingsAndPlainLinks(t) ==
    LET t156 == Delete(t, HeadingEnd)
        t159 == RemoveEmphasis(t156, 3)
        t160 == RemoveEmphasis(t159, 2)
        t162 == ReplaceImageHeading(t160)
        t166 == ReplacePlainLinks(t162)
    IN ReplaceAnnexLinks(t166)

\* lines 168-184
PipedAndExternalLinks(t) ==
    LET t168 == Replace(t, MultimediaEnd, FileSentinel)
        t169 == ReplaceImageLinks(t168)
        t170 == ReplacePipedLinks(t169)
        t173 == ReplaceLabelledLinks(t170)
        t174 == Replace(t173, BracketedUrlEnd, LinkSentinel)
        t175 == Replace(t174, BareUrlEnd, LinkSentinel)
        t177 == Replace(t175, RuleEnd, <<"\n">>)
    IN Delete(t177, FileLinkEnd)

-----------------------------------------------------------------------------
(* wiki_parser.filter_markup: tables, tags, lists and dashes (lines 187-227) *)

\* the line breaks of s that a closing |} follows
TableClosers(s) == {q \in 1..Len(s) : s[q] = "\n" /\ At(s, q + 1, <<"|", "}">>)}

\* \{\|(?P<head>[^!|}]+)(?P<caption>(\|\+.*)?)(?P<body>(.*\n)+?)\|\}
\* The head takes as much as leaves a line break followed by |} ahead of it;
\* every iteration of the body runs through the next line break, and the body
\* stops at the first one that |} follows. The caption changes neither.
WikiTableEnd(s, i) ==
    LET H == SpanNot(s, i + 2, {"!", "|", "}"})
        V == {h \in (i + 3)..H : \E q \in TableClosers(s) : q >= h}
    IN IF At(s, i, <<"{", "|">>) /\ V # {}
       THEN Min({q \in TableClosers(s) : q >= Max(V)}) + 3
       ELSE 0

\* <name([^>]*?)> : the opening tag runs to the first >
AnyOpenTagEnd(s, i, open) ==
    LET g == Find(s, i + Len(open), <<">">>)
    IN IF At(s, i, open) /\ g # 0 THEN g + 1 ELSE 0

\* </name\s*>
CloseTagEnd(s, i, close) ==
    LET j == Span(s, i + Len(close), Space)
    IN IF At(s, i, close) /\ IsAt(s, j, {">"}) THEN j + 1 ELSE 0

\* [-#\w=.,:;\'" ]
AttrChars == {"-", "#", "=", ".", ",", ":", ";", "'", "\"", " "} \cup Word

\* <br\s*[-#\w=.,:;\'" ]*/?>
BreakTagEnd(s, i) ==
    LET j == Span(s, i + 3, Space)
        k == Span(s, j, AttrChars)
        l == IF IsAt(s, k, {"/"}) THEN k + 1 ELSE k
    IN IF At(s, i, <<"<","b","r">>) /\ IsAt(s, l, {">"}) THEN l + 1 ELSE 0

\* &nbsp;
NbspEnd(s, i) == IF At(s, i, <<"&","n","b","s","p",";">>) THEN i + 6 ELSE 0

\* (?i)<name\s*> or, with attributes, (?i)<name\s*[-#\w=.,:;\'" ]*> at i:
\* the position after the >, or 0
OpenTagEnd(s, i, name, attrs) ==
    LET j == Span(s, i + 1 + Len(name), Space)
        k == IF attrs THEN Span(s, j, AttrChars) ELSE j
    IN IF IsAt(s, i, {"<"}) /\ AtCI(s, i + 1, name) /\ IsAt(s, k, {">"})
       THEN k + 1 ELSE 0

CloseTag(name) == <<"<", "/">> \o name \o <<">">>

\* (?is)OPEN(.*?)</name> at i: the position of the closing tag, or 0
TagClose(s, i, name, attrs) ==
    IF OpenTagEnd(s, i, name, attrs) = 0 THEN 0
    ELSE FindCI(s, OpenTagEnd(s, i, name, attrs), CloseTag(name))

TagEnd(s, i, name, attrs) ==
    IF TagClose(s, i, name, attrs) = 0 THEN 0
    ELSE TagClose(s, i, name, attrs) + Len(name) + 3

\* the tag replaced by what it encloses
Unwrap(s, name, attrs) ==
    Sub(s, [i \in 1..Len(s) |-> TagEnd(s, i, name, attrs)],
           [i \in 1..Len(s) |-> Slice(s, OpenTagEnd(s, i, name, attrs),
                                      TagClose(s, i, name, attrs))])

\* the tag removed with what it encloses
Drop(s, name, attrs) == Sub(s, [i \in 1..Len(s) |-> TagEnd(s, i, name, attrs)], Deleted(s))

\* (tt|b|u|s)
InlineTags == << <<"t","t">>, <<"b">>, <<"u">>, <<"s">> >>

\* (?is)<(tt|b|u|s)\s*>(.*?)</\1> at i: the alternative that matches, or 0
InlineTagAt(s, i) ==
    LET K == {k \in 1..Len(InlineTags) : TagEnd(s, i, InlineTags[k], FALSE) # 0}
    IN IF K = {} THEN 0 ELSE Min(K)

UnwrapInlineTags(s) ==
    Sub(s, [i \in 1..Len(s) |-> IF InlineTagAt(s, i) = 0 THEN 0
                                ELSE TagEnd(s, i, InlineTags[InlineTagAt(s, i)], FALSE)],
           [i \in 1..Len(s) |->
               Slice(s, OpenTagEnd(s, i, InlineTags[InlineTagAt(s, i)], FALSE),
                     TagClose(s, i, InlineTags[InlineTagAt(s, i)], FALSE))])

\* lines 199-206
UnwrapTags(s) ==
    Unwrap(Unwrap(Unwrap(Unwrap(Unwrap(Unwrap(UnwrapInlineTags(
        Unwrap(s, <<"b","l","o","c","k","q","u","o","t","e">>, TRUE)),
        <<"s","u","b">>, FALSE),
        <<"s","p","a","n">>, TRUE),
        <<"b","i","g">>, TRUE),
        <<"f","o","n","t">>, TRUE),
        <<"p","o","e","m">>, FALSE),
        <<"n","o","w","i","k","i">>, FALSE)

\* (?is)<name(.*?)>.*?</name>
LooseTagEndCI(s, i, name) ==
    LET g == Find(s, i + 1 + Len(name), <<">">>)
        f == IF g = 0 THEN 0 ELSE FindCI(s, g + 1, CloseTag(name))
    IN IF IsAt(s, i, {"<"}) /\ AtCI(s, i + 1, name) /\ g # 0 /\ f # 0
       THEN f + Len(name) + 3 ELSE 0

DropLoose(s, name) == Sub(s, [i \in 1..Len(s) |-> LooseTagEndCI(s, i, name)], Deleted(s))

\* lines 213-220
DropTags(s) ==
    DropLoose(DropLoose(Drop(Drop(Drop(Drop(Drop(
        Drop(s, <<"s","m","a","l","l">>, FALSE),
        <<"s","u","p">>, FALSE),
        <<"g","a","l","l","e","r","y">>, TRUE),
        <<"n","o","i","n","c","l","u","d","e">>, TRUE),
        <<"i","n","c","l","u","d","e","o","n","l","y">>, TRUE),
        <<"o","n","l","y","i","n","c","l","u","d","e">>, TRUE),
        <<"t","i","m","e","l","i","n","e">>),
        <<"t","a","b","l","e">>)

\* [#*:;]
ListMarkers == {"#", "*", ":", ";"}

\* [#*:;]+[^\n]+\n from p: a line that begins with a marker, holds at least
\* one more character and ends with a line break; the position after it, or 0
ListItemEnd(s, p) ==
    LET eol == NextNewline(s, p)
    IN IF IsAt(s, p, ListMarkers) /\ eol # 0 /\ eol >= p + 2 THEN eol + 1 ELSE 0

\* ([#*:;]+[^\n]+\n)+ from p: the position after the last of the successive items
RECURSIVE ListItemsEnd(_, _)
ListItemsEnd(s, p) ==
    IF ListItemEnd(s, p) = 0 THEN p ELSE ListItemsEnd(s, ListItemEnd(s, p))

\* \n(([#*:;]+[^\n]+\n)+)
ListEnd(s, i) ==
    IF IsAt(s, i, {"\n"}) /\ ListItemEnd(s, i + 1) # 0 THEN ListItemsEnd(s, i + 1) ELSE 0

\* u'—|--'
DashEnd(s, i) ==
    IF IsAt(s, i, {"mdash"}) THEN i + 1
    ELSE IF At(s, i, <<"-", "-">>) THEN i + 2
    ELSE 0

\* lines 187-196
TablesAndBlocks(t) ==
    LET t187 == Delete(t, WikiTableEnd)
        t189 == Delete(t187, LAMBDA s, i : AnyOpenTagEnd(s, i, <<"<","d","i","v">>))
        t190 == Delete(t189, LAMBDA s, i : CloseTagEnd(s, i, <<"<","/","d","i","v">>))
        t191 == Delete(t190, LAMBDA s, i : AnyOpenTagEnd(s, i, <<"<","c","e","n","t","e","r">>))
        t192 == Delete(t191, LAMBDA s, i : CloseTagEnd(s, i, <<"<","/","c","e","n","t","e","r">>))
        t193 == Replace(t192, BreakTagEnd, <<"\n">>)
    IN Replace(t193, NbspEnd, <<" ">>)

\* lines 209-220
CodeAndDroppedTags(t) ==
    LET t209 == Replace(t, LAMBDA s, i : LooseTagEnd(s, i, <<"<","c","o","d","e">>,
                                                     <<"<","/","c","o","d","e",">">>),
                        CodeSentinel)
        t210 == Replace(t209, LAMBDA s, i : LooseTagEnd(s, i, <<"<","s","o","u","r","c","e">>,
                                                        <<"<","/","s","o","u","r","c","e",">">>),
                        CodeSentinel)
    IN DropTags(t210)

\* lines 224-227
ListsAndDashes(t) ==
    LET t224 == t \o <<"\n">>
        t225 == Replace(t224, ListEnd, <<"\n">>)
    IN Replace(t225, DashEnd, <<"-">>)

-----------------------------------------------------------------------------
(* corpus_builder.clean_text *)

Apostrophes == {"lsquo", "rsquo", "prime", "grave", "'"}
AngleQuotes == {"laquo", "raquo", "ldquo", "rdquo"}
TypoMarks == {",", "\"", ";", ":"}

\* text = re.sub(ur"(?u)(\W)[‘’′`']", r'\1"', text)
QuoteAfterNonWord(s) ==
    LET m == [i \in 1..Len(s) |->
                IF i < Len(s) /\ s[i] \notin UWord /\ s[i + 1] \in Apostrophes
                THEN i + 2 ELSE 0]
        r == [i \in 1..Len(s) |-> <<s[i], "\"">>]
    IN Sub(s, m, r)

\* text = re.sub(ur"(?u)[‘’`′'](\W)", r'"\1', text)
QuoteBeforeNonWord(s) ==
    LET m == [i \in 1..Len(s) |->
                IF i < Len(s) /\ s[i] \in Apostrophes /\ s[i + 1] \notin UWord
                THEN i + 2 ELSE 0]
        r == [i \in 1..Len(s) |-> <<"\"", s[i + 1]>>]
    IN Sub(s, m, r)

\* text = re.sub(ur'(?u)[«»“”]', '"', text)
UnifyAngleQuotes(s) == [i \in 1..Len(s) |-> IF s[i] \in AngleQuotes THEN "\"" ELSE s[i]]

\* text = re.sub(r'(?<!\.)\.\.(?!\.)', '.', text)
FixDoubleDot(s) ==
    LET m == [i \in 1..Len(s) |->
                IF /\ At(s, i, <<".", ".">>)
                   /\ ~(i > 1 /\ s[i - 1] = ".")
                   /\ ~(i + 2 <= Len(s) /\ s[i + 2] = ".")
                THEN i + 2 ELSE 0]
        r == [i \in 1..Len(s) |-> <<".">>]
    IN Sub(s, m, r)

\* text = re.sub(r'([,";:])\1,', r'\1', text)
FixDoubledMark(s) ==
    LET m == [i \in 1..Len(s) |->
                IF /\ i + 2 <= Len(s)
                   /\ s[i] \in TypoMarks
                   /\ s[i + 1] = s[i]
                   /\ s[i + 2] = ","
                THEN i + 3 ELSE 0]
        r == [i \in 1..Len(s) |-> <<s[i]>>]
    IN Sub(s, m, r)

\* text = re.sub(' -(?=[^\W\d_])', ' - ', text)     (no re.UNICODE)
SpaceAfterLeadingHyphen(s) ==
    LET m == [i \in 1..Len(s) |->
                IF /\ At(s, i, <<" ", "-">>)
                   /\ i + 2 <= Len(s)
                   /\ s[i + 2] \in Alpha
                THEN i + 2 ELSE 0]
        r == [i \in 1..Len(s) |-> <<" ", "-", " ">>]
    IN Sub(s, m, r)

\* text = re.sub(r'\d', '9', text)
FoldDigits(s) == [i \in 1..Len(s) |-> IF s[i] \in Digits THEN "9" ELSE s[i]]

\* text = text.replace(u'…', '...')
RECURSIVE ExpandEllipsis(_)
ExpandEllipsis(s) ==
    IF s = <<>> THEN <<>>
    ELSE (IF Head(s) = "hellip" THEN <<".", ".", ".">> ELSE <<Head(s)>>)
         \o ExpandEllipsis(Tail(s))

\* the correction pass, skipped when correct is false
CorrectTypos(s, c) ==
    IF c THEN SpaceAfterLeadingHyphen(FixDoubledMark(FixDoubleDot(s))) ELSE s

clean_text(s, c) ==
    ExpandEllipsis(FoldDigits(
        CorrectTypos(UnifyAngleQuotes(QuoteBeforeNonWord(QuoteAfterNonWord(s))), c)))

-----------------------------------------------------------------------------
(* corpus_builder._clitic_regexp and its use in tokenize *)

\* the alternatives of the pronoun group
Pronouns == {<<"m","e">>, <<"t","e">>, <<"o">>, <<"a">>, <<"n","o">>, <<"n","a">>,
             <<"l","o">>, <<"l","a">>, <<"s","e">>,
             <<"l","h","e">>, <<"l","h","o">>, <<"l","h","a">>,
             <<"l","h","o","s">>, <<"l","h","a","s">>,
             <<"n","o","s">>, <<"v","o","s">>,
             <<"o","s">>, <<"a","s">>, <<"n","a","s">>, <<"l","o","s">>,
             <<"l","a","s">>, <<"l","h","e","s">>}

\* (?![-\w]) at position j
NotFollowedByWordOrHyphen(s, j) == j > Len(s) \/ s[j] \notin (UWord \cup {"-"})

\* the pronouns the pattern can match after the hyphen at i: the alternation is
\* tried in order and backtracks into the next alternative when the lookahead
\* fails, so a pronoun matches iff it is followed by neither \w nor a hyphen
CliticAt(s, i) ==
    IF i > 1 /\ i <= Len(s) /\ s[i] = "-" /\ s[i - 1] \in UWord
    THEN {p \in Pronouns : At(s, i + 1, p) /\ NotFollowedByWordOrHyphen(s, i + 1 + Len(p))}
    ELSE {}

\* text = _clitic_regexp.sub(r'- \1', text)
CliticSplit(s) ==
    LET m == [i \in 1..Len(s) |->
                IF CliticAt(s, i) = {} THEN 0
                ELSE i + 1 + Len(CHOOSE p \in CliticAt(s, i) : TRUE)]
        r == [i \in 1..Len(s) |-> <<"-", " ">> \o (CHOOSE p \in CliticAt(s, i) : TRUE)]
    IN Sub(s, m, r)

-----------------------------------------------------------------------------
(* corpus_builder._tokenizer_regexp: one operator for each alternative, giving *)
(* the end of its match at position i of s, or 0                              *)

\* ([^\W\d_]\.)+
RECURSIVE LetterDotRun(_, _)
LetterDotRun(s, i) ==
    IF IsAt(s, i, UAlpha) /\ IsAt(s, i + 1, {"."}) THEN LetterDotRun(s, i + 2) ELSE i

OneLetterAbbrev(s, i) ==
    LET e == LetterDotRun(s, i) IN IF e > i THEN e ELSE 0

\* (sep \d{3})* : each group is the separator and three digits
RECURSIVE GroupRun(_, _, _)
GroupRun(s, j, sep) ==
    IF /\ IsAt(s, j, {sep})
       /\ IsAt(s, j + 1, Digits) /\ IsAt(s, j + 2, Digits) /\ IsAt(s, j + 3, Digits)
    THEN GroupRun(s, j + 4, sep)
    ELSE j

\* \d{1,3}(sep\d{3})*(dec\d+)
LongNumber(s, i, sep, dec) ==
    LET d == Span(s, i, Digits)
        g == GroupRun(s, d, sep)
    IN IF /\ IsAt(s, i, Digits)
          /\ d - i <= 3
          /\ IsAt(s, g, {dec})
          /\ IsAt(s, g + 1, Digits)
       THEN Span(s, g + 1, Digits)
       ELSE 0

\* \d{1,3}(\.\d{3})*(,\d+)
NumberCommaDecimal(s, i) == LongNumber(s, i, ".", ",")

\* \d{1,3}(,\d{3})*(\.\d+)
NumberDotDecimal(s, i) == LongNumber(s, i, ",", ".")

\* \d+:\d+
TimeOrRatio(s, i) ==
    LET d == Span(s, i, Digits)
    IN IF IsAt(s, i, Digits) /\ IsAt(s, d, {":"}) /\ IsAt(s, d + 1, Digits)
       THEN Span(s, d + 1, Digits)
       ELSE 0

\* ([-\\/]\d+)*
RECURSIVE DateGroups(_, _)
DateGroups(s, j) ==
    IF IsAt(s, j, {"-", "\\", "/"}) /\ IsAt(s, j + 1, Digits)
    THEN DateGroups(s, Span(s, j + 1, Digits))
    ELSE j

\* \d+([-\\/]\d+)*
DateLike(s, i) ==
    IF IsAt(s, i, Digits) THEN DateGroups(s, Span(s, i, Digits)) ELSE 0

\* [DSds][Rr][Aa]?\.
TitleAbbrev(s, i) ==
    IF IsAt(s, i, {"D", "S", "d", "s"}) /\ IsAt(s, i + 1, {"R", "r"})
    THEN IF IsAt(s, i + 2, {"A", "a"})
         THEN (IF IsAt(s, i + 3, {"."}) THEN i + 4 ELSE 0)
         ELSE (IF IsAt(s, i + 2, {"."}) THEN i + 3 ELSE 0)
    ELSE 0

\* an optional dot at j: \.?
OptDot(s, j) == IF IsAt(s, j, {"."}) THEN j + 1 ELSE j

\* [Mm]\.?[Ss][Cc]\.?
MScAbbrev(s, i) ==
    LET j == OptDot(s, i + 1)
    IN IF IsAt(s, i, {"M", "m"}) /\ IsAt(s, j, {"S", "s"}) /\ IsAt(s, j + 1, {"C", "c"})
       THEN OptDot(s, j + 2)
       ELSE 0

\* [Pp][Hh]\.?[Dd]\.?
PhDAbbrev(s, i) ==
    LET j == OptDot(s, i + 2)
    IN IF IsAt(s, i, {"P", "p"}) /\ IsAt(s, i + 1, {"H", "h"}) /\ IsAt(s, j, {"D", "d"})
       THEN OptDot(s, j + 1)
       ELSE 0

\* [^\W\d_]{1,2}\$
Currency(s, i) ==
    IF IsAt(s, i, UAlpha)
    THEN IF IsAt(s, i + 1, UAlpha) /\ IsAt(s, i + 2, {"$"}) THEN i + 3
         ELSE IF IsAt(s, i + 1, {"$"}) THEN i + 2
         ELSE 0
    ELSE 0

\* (?:(?<=\s)|^)[\#@]\w*[A-Za-z_]+\w*
Hashtag(s, i) ==
    LET e == Span(s, i + 1, UWord)
    IN IF /\ IsAt(s, i, {"#", "@"})
          /\ (i = 1 \/ s[i - 1] \in Space)
          /\ \E k \in (i + 1)..(e - 1) : s[k] \in (AsciiLetters \cup {"_"})
       THEN e
       ELSE 0

\* ([-']\w+)*
RECURSIVE WordGroups(_, _)
WordGroups(s, j) ==
    IF IsAt(s, j, {"-", "'"}) /\ IsAt(s, j + 1, UWord)
    THEN WordGroups(s, Span(s, j + 1, UWord))
    ELSE j

\* \w+([-']\w+)*-?
WordToken(s, i) ==
    IF IsAt(s, i, UWord)
    THEN LET e == WordGroups(s, Span(s, i, UWord))
         IN IF IsAt(s, e, {"-"}) THEN e + 1 ELSE e
    ELSE 0

\* -+
Dashes(s, i) == IF IsAt(s, i, {"-"}) THEN Span(s, i, {"-"}) ELSE 0

\* \.{3,}
Ellipsis(s, i) ==
    LET e == Span(s, i, {"."}) IN IF IsAt(s, i, {"."}) /\ e - i >= 3 THEN e ELSE 0

\* __LINK__
LinkToken(s, i) == IF At(s, i, LinkSentinel) THEN i + Len(LinkSentinel) ELSE 0

\* the pattern without its last alternative
NoFallback(s, i) == 0

\* \S
NonSpace(s, i) == IF i <= Len(s) /\ s[i] \notin Space THEN i + 1 ELSE 0

\* the alternation: the first alternative that matches at i decides the token
FirstMatch(ends) ==
    LET K == {k \in 1..Len(ends) : ends[k] # 0}
    IN IF K = {} THEN 0 ELSE ends[Min(K)]

TokenEnd(s, i) ==
    FirstMatch(<<OneLetterAbbrev(s, i), NumberCommaDecimal(s, i), NumberDotDecimal(s, i),
                 TimeOrRatio(s, i), DateLike(s, i), TitleAbbrev(s, i), MScAbbrev(s, i),
                 PhDAbbrev(s, i), Currency(s, i), Hashtag(s, i), WordToken(s, i),
                 Dashes(s, i), Ellipsis(s, i), LinkToken(s, i), NonSpace(s, i)>>)

\* _tokenizer.tokenize(p): the successive matches of the pattern, as
\* <<start, end>> spans of p
RECURSIVE ScanSpansFrom(_, _)
ScanSpansFrom(s, i) ==
    IF i > Len(s) THEN <<>>
    ELSE LET e == TokenEnd(s, i)
         IN IF e = 0 THEN ScanSpansFrom(s, i + 1)
            ELSE <<(<<i, e>>)>> \o ScanSpansFrom(s, e)

ScanSpans(s) == ScanSpansFrom(s, 1)

\* _tokenizer.tokenize(p): the token strings
Scan(s) == LET sp == ScanSpans(s) IN [k \in 1..Len(sp) |-> Slice(s, sp[k][1], sp[k][2])]

-----------------------------------------------------------------------------
(* corpus_builder.tokenize *)

\* lines = text.split('\n')
RECURSIVE SplitLines(_)
SplitLines(s) ==
    LET n == Find(s, 1, <<"\n">>)
    IN IF n = 0 THEN <<s>>
       ELSE <<Slice(s, 1, n)>> \o SplitLines(Slice(s, n + 1, Len(s) + 1))

\* sent_tokenizer.tokenize(line, realign_boundaries=True).  The Punkt model is a
\* trained resource outside the repository: what it decides is left open.  It
\* returns consecutive slices of the line; a slice can only begin at a
\* non-space character that follows a sentence-final mark, either directly
\* (when it is one of Punkt's non-word characters) or after white space and
\* closing punctuation.
SentenceEnders == {".", "?", "!"}
PunktNonWord == {"?", "!", ")", "\"", ";", "}", "]", "*", ":", "@", "'", "(", "{", "["}
PunktClosers == {"\"", "'", ")", "]", "}"}

BreakCandidates(line) ==
    {j \in 2..Len(line) :
        /\ line[j] \notin Space
        /\ \E k \in 1..(j - 1) :
              /\ line[k] \in SentenceEnders
              /\ \A x \in (k + 1)..(j - 1) : line[x] \in (Space \cup PunktClosers)
              /\ (j = k + 1 => line[j] \in PunktNonWord)}

\* the slices of line cut at the positions J, from position start on
RECURSIVE PiecesFrom(_, _, _)
PiecesFrom(line, J, start) ==
    IF J = {} THEN <<Slice(line, start, Len(line) + 1)>>
    ELSE LET j == Min(J)
         IN <<Slice(line, start, j)>> \o PiecesFrom(line, J \ {j}, j)

\* for line in lines: sentences.extend(sent_tokenizer.tokenize(line, ...)),
\* B being the boundaries the segmenter chooses, as <<line number, position>>
RECURSIVE SegmentFrom(_, _, _)
SegmentFrom(lines, B, l) ==
    IF l > Len(lines) THEN <<>>
    ELSE PiecesFrom(lines[l], {j \in BreakCandidates(lines[l]) : <<l, j>> \in B}, 1)
         \o SegmentFrom(lines, B, l + 1)

AllBreakCandidates(lines) ==
    UNION {{<<l, j>> : j \in BreakCandidates(lines[l])} : l \in 1..Len(lines)}

\* p.strip() == ''
IsBlank(p) == \A k \in 1..Len(p) : p[k] \in Space

\* p[0] in ['!', '|'] or '{{' in p or ... or '__TEMPLATE__' in p
Troublesome(p) ==
    \/ p[1] \in {"!", "|"}
    \/ Contains(p, <<"{", "{">>) \/ Contains(p, <<"}", "}">>)
    \/ Contains(p, <<"[", "[">>) \/ Contains(p, <<"]", "]">>)
    \/ Contains(p, <<"{", "|">>) \/ Contains(p, <<"|", "}">>)
    \/ Contains(p, TemplateSentinel)

\* the sentence p reaches new_sent = _tokenizer.tokenize(p)
IsScanned(p, w) == ~IsBlank(p) /\ ~(w /\ Troublesome(p))

\* the size filter with <= for <
TooShortOrEqual(new_sent, n) == n > 0 /\ Len(new_sent) <= n

\* the size filter: the sentence is discarded
TooShort(new_sent, n) == n > 0 /\ Len(new_sent) < n

\* the loop "for p in sentences", from the k-th sentence on: what it appends to ret
RECURSIVE TokenizeLoop(_, _, _, _)
TokenizeLoop(sents, k, w, n) ==
    IF k > Len(sents) THEN <<>>
    ELSE LET p == sents[k]
             new_sent == Scan(p)
             rest == TokenizeLoop(sents, k + 1, w, n)
         IN IF ~IsScanned(p, w) THEN rest
            ELSE IF TooShort(new_sent, n) THEN rest
            ELSE <<new_sent>> \o rest

\* every value new_sent takes in the loop, in order
RECURSIVE ScannedFrom(_, _, _)
ScannedFrom(sents, k, w) ==
    IF k > Len(sents) THEN <<>>
    ELSE (IF IsScanned(sents[k], w) THEN <<Scan(sents[k])>> ELSE <<>>)
         \o ScannedFrom(sents, k + 1, w)

\* the text after "if wiki: text = clean_text(text, correct=True)" and the
\* clitic substitution, split into lines
PreparedLines(s, w) == SplitLines(CliticSplit(IF w THEN clean_text(s, TRUE) ELSE s))

-----------------------------------------------------------------------------
(* Bounded inputs *)

\* every concatenation of at most n fragments drawn from F
RECURSIVE Strs(_, _)
Strs(F, n) ==
    IF n = 0 THEN {<<>>}
    ELSE LET P == Strs(F, n - 1)
         IN P \cup {p \o f : p \in P, f \in F}

MaxCleanLen == 4
CleanChars == {<<"a">>, <<" ">>, <<"'">>, <<"laquo">>, <<",">>, <<".">>, <<"-">>,
               <<"1">>, <<"hellip">>}
CleanInputs == Strs(CleanChars, MaxCleanLen)

-----------------------------------------------------------------------------
(* The driver of clean_text: one call, then a second call on the result *)

InitClean ==
    /\ pc = "start"
    /\ fn = "clean_text"
    /\ text \in CleanInputs
    /\ correct \in BOOLEAN
    /\ wiki = FALSE
    /\ min_sentence_size = 0
    /\ ret = <<>>
    /\ ret2 = <<>>
    /\ sentences = <<>>
    /\ candidates = <<>>
    /\ rounds = 0
    /\ NoBuild

CleanText ==
    /\ fn = "clean_text"
    /\ pc = "start"
    /\ ret' = clean_text(text, correct)
    /\ pc' = "once"
    /\ UNCHANGED <<fn, text, correct, wiki, min_sentence_size, ret2, sentences, candidates, rounds>>
    /\ UNCHANGED bvars

CleanTextAgain ==
    /\ fn = "clean_text"
    /\ pc = "once"
    /\ ret2' = clean_text(ret, correct)
    /\ pc' = "twice"
    /\ UNCHANGED <<fn, text, correct, wiki, min_sentence_size, ret, sentences, candidates, rounds>>
    /\ UNCHANGED bvars

NextClean == CleanText \/ CleanTextAgain

SpecClean == InitClean /\ [][NextClean]_vars

-----------------------------------------------------------------------------
(* The driver of tokenize: one call *)

MaxTokLen == 3
MaxMinSize == 3
TokChars == {<<"a">>, <<"9">>, <<".">>, <<",">>, <<"-">>, <<" ">>, <<"#">>, <<"$">>,
             <<":">>, <<"\n">>}
\* every short string over the characters the token patterns tell apart
ShortTexts == Strs(TokChars, MaxTokLen)

\* the words the title and degree patterns are written for, in every letter case
\* and with every choice of dots
TitleWords ==
    {<<d, r>> \o a \o <<".">> :
        d \in {"D", "S", "d", "s"}, r \in {"R", "r"}, a \in {<<>>, <<"A">>, <<"a">>}}
DegreeWords ==
    {<<m>> \o d1 \o <<s, c>> \o d2 :
        m \in {"M", "m"}, s \in {"S", "s"}, c \in {"C", "c"},
        d1 \in {<<>>, <<".">>}, d2 \in {<<>>, <<".">>}}
    \cup
    {<<p, h>> \o d1 \o <<d>> \o d2 :
        p \in {"P", "p"}, h \in {"H", "h"}, d \in {"D", "d"},
        d1 \in {<<>>, <<".">>}, d2 \in {<<>>, <<".">>}}
AbbrevTexts ==
    {pre \o w \o post :
        pre \in {<<>>, <<"o", " ">>},
        w \in TitleWords \cup DegreeWords,
        post \in {<<>>, <<" ", "a">>}}

\* hyphenated words: a stem, a hyphen, a suffix that is or is not a pronoun, and
\* what follows
Stems == {<<"d","a","r">>, <<"v","i","u">>, <<"9">>, <<"m","s","c">>, <<"#","a">>,
          <<"d","a","r","-","s","e">>, <<".">>}
Suffixes == Pronouns \cup {<<"m","e","u">>, <<"M","E">>, <<"x">>}
Followers == {<<>>, <<" ","a","l","g","o">>, <<".">>, <<"s">>, <<"-","a">>, <<",">>,
              <<"$">>, <<"'","s">>}
HyphenTexts == {st \o <<"-">> \o su \o fo : st \in Stems, su \in Suffixes, fo \in Followers}

\* sentences of one to three words on up to two lines, some with markup residue
Words == {<<"a">>, <<"a", " ", "b">>, <<"a", " ", "b", " ", "c">>, <<"a", ".", " ", "b">>,
          <<"!", "a">>, <<"{", "{", "a">>, <<"a", " ">> \o TemplateSentinel, <<" ">>}
LineTexts == Words \cup {u \o <<"\n">> \o v : u \in Words, v \in Words}

TokInputs == ShortTexts \cup AbbrevTexts \cup HyphenTexts \cup LineTexts

InitTok ==
    /\ pc = "start"
    /\ fn = "tokenize"
    /\ text \in TokInputs
    /\ correct = TRUE
    /\ wiki \in BOOLEAN
    /\ min_sentence_size \in 0..MaxMinSize
    /\ ret = <<>>
    /\ ret2 = <<>>
    /\ sentences = <<>>
    /\ candidates = <<>>
    /\ rounds = 0
    /\ NoBuild

Tokenize ==
    /\ fn = "tokenize"
    /\ pc = "start"
    /\ LET lines == PreparedLines(text, wiki)
       IN \E B \in SUBSET AllBreakCandidates(lines) :
             /\ sentences' = SegmentFrom(lines, B, 1)
             /\ candidates' = ScannedFrom(sentences', 1, wiki)
             /\ ret' = TokenizeLoop(sentences', 1, wiki, min_sentence_size)
    /\ pc' = "done"
    /\ UNCHANGED <<fn, text, correct, wiki, min_sentence_size, ret2, rounds>>
    /\ UNCHANGED bvars

NextTok == Tokenize

SpecTok == InitTok /\ [][NextTok]_vars

-----------------------------------------------------------------------------
(* The driver of filter_markup: one call *)

MaxBracketFrags == 4
BracketFrags == {<<"[", "[">>, <<"]", "]">>, <<"a">>, <<"|">>}
\* texts of brackets, bars and letters
BracketInputs == Strs(BracketFrags, MaxBracketFrags)

MaxTemplateDepth == 2
TemplateTexts == {<<>>, <<"a">>}
\* the templates nested at most d deep: text, then possibly a nested template,
\* text, possibly a flat template, and text again
RECURSIVE Templates(_)
Templates(d) ==
    LET Flat == {<<"{", "{">> \o w \o <<"}", "}">> : w \in TemplateTexts}
    IN IF d = 0 THEN Flat
       ELSE LET Inner == Templates(d - 1)
            IN Flat
               \cup {<<"{", "{">> \o w[1] \o t \o w[2] \o <<"}", "}">> :
                        w \in TemplateTexts \X TemplateTexts, t \in Inner}
               \cup {<<"{", "{">> \o w[1] \o t \o w[2] \o f \o <<"}", "}">> :
                        w \in TemplateTexts \X TemplateTexts, t \in Inner, f \in Flat}
\* the example of the comment on line 140, and the templates handled by name
NamedTemplates ==
    {<<"{","{"," ","a","a","a"," ","{","{"," ","b","b","b"," ","{","{"," ","c","c","c"," ",
       "}","}"," ","}","}"," ","}","}">>,
     <<"{","{","I","P","A","2","|","a","}","}">>,
     <<"{","{","C","a","r","e","c","e"," ","d","e"," ","f","o","n","t","e","s","}","}">>}
TemplateInputs == Templates(MaxTemplateDepth) \cup NamedTemplates

\* the names that open a link to a file, and one that does not
FileNamespaces ==
    {<<"A","r","q","u","i","v","o">>, <<"I","m","a","g","e","m">>, <<"I","m","a","g","e">>,
     <<"F","i","c","h","e","i","r","o">>, <<"F","i","l","e">>, <<"a","r","q","u","i","v","o">>,
     <<"f","i","l","e">>}
LinkTargets ==
    {ns \o <<":", "f", ".", "j">> : ns \in FileNamespaces} \cup {<<"B", "r">>}
LinkCaptions == {<<"l","e","g">>, <<"o", " ", "p">>}
LinkContexts == {<<>>, <<"x", " ">>, <<"\n">>}
\* a piped link, alone or inside running text
LinkInputs ==
    {c[1] \o <<"[", "[">> \o t \o <<"|">> \o cap \o <<"]", "]">> \o c[2] :
        c \in LinkContexts \X LinkContexts, t \in LinkTargets, cap \in LinkCaptions}

MaxRestFrags == 2
RestFrags == {<<" ">>, <<"[", "[", "a", "]", "]">>, <<"}", "}">>, <<"\n">>, <<"a">>}
\* pages that begin with one of the two markers, and pages that nearly do
RedirectInputs ==
    {m \o r : m \in {RedirectMarker, DisambiguationMarker, Tail(RedirectMarker),
                     <<"#","R","E","D","I","R","E","C","T">>},
              r \in Strs(RestFrags, MaxRestFrags)}

MaxListFrags == 4
ListFrags == {<<"\n">>, <<"*">>, <<";">>, <<"a">>}
\* texts of line breaks, list markers and letters
ListInputs == Strs(ListFrags, MaxListFrags)

FilterInputs ==
    BracketInputs \cup TemplateInputs \cup LinkInputs \cup RedirectInputs \cup ListInputs

InitFilter ==
    /\ pc = "start"
    /\ fn = "filter_markup"
    /\ text \in FilterInputs
    /\ correct = TRUE
    /\ wiki = FALSE
    /\ min_sentence_size = 0
    /\ ret = <<>>
    /\ ret2 = <<>>
    /\ sentences = <<>>
    /\ candidates = <<>>
    /\ rounds = 0
    /\ NoBuild

\* filter_markup(t): the bound variables are the values the local variable t
\* takes in turn
FilterMarkup ==
    /\ fn = "filter_markup"
    /\ pc = "start"
    /\ IF IsUnwantedPage(text)
       THEN ret' = <<>> /\ rounds' = 0
       ELSE \E t1 \in {StripStructure(text)} :
            \E t2 \in {StripReferences(t1)} :
            \E l1 \in {TemplateLoop(t2, 0)} :
            \E l2 \in {TableLoop(l1.t, 0)} :
            \E t3 \in {HeadingsAndPlainLinks(l2.t)} :
            \E t4 \in {PipedAndExternalLinks(t3)} :
            \E t5 \in {TablesAndBlocks(t4)} :
            \E t6 \in {UnwrapTags(t5)} :
            \E t7 \in {CodeAndDroppedTags(t6)} :
                /\ ret' = ListsAndDashes(t7)
                /\ rounds' = l1.iterations
    /\ pc' = "done"
    /\ UNCHANGED <<fn, text, correct, wiki, min_sentence_size, ret2, sentences, candidates>>
    /\ UNCHANGED bvars

NextFilter == FilterMarkup

SpecFilter == InitFilter /\ [][NextFilter]_vars

-----------------------------------------------------------------------------
(* corpus_builder.build_corpus_from_wiki *)

\* if size >= 50000000
SizeThreshold == 50000000

\* save_articles(articles, file_num): the call, as the list it is given and the
\* number that names its file wiki-<file_num>.txt
save_articles(calls, arts, num) == Append(calls, <<arts, num>>)

\* size += len(article), and the test that closes a file
ReachedThreshold(sz) == sz >= SizeThreshold

\* the stop test with the count compared one article too late
StopAfterOneMore(num, total) == num = total

\* if (article_num + 1) == total_articles.  None and the numbers below 1 equal
\* no count of articles; None is modelled by such a number
StopReached(num, total) == (num + 1) = total

MaxStream == 4
\* len(article) for the articles of the stream.  get_articles yields
\* filter_markup(text) for the pages whose text does not begin with a redirect or
\* disambiguation marker, and filter_markup ends every such result with a line
\* break, so an article holds at least one character
ArticleSizes == {1, 24999999, 25000000, 50000000}
StreamInputs == UNION {[1..n -> ArticleSizes] : n \in 0..MaxStream}

InitBuild ==
    /\ pc = "loop"
    /\ fn = "build_corpus_from_wiki"
    /\ text = <<>>
    /\ correct = TRUE
    /\ wiki = TRUE
    /\ min_sentence_size = 0
    /\ ret = <<>>
    /\ ret2 = <<>>
    /\ sentences = <<>>
    /\ candidates = <<>>
    /\ rounds = 0
    /\ stream \in StreamInputs
    /\ consumed = 0
    /\ article_num = -1
    /\ articles = <<>>
    /\ size = 0
    /\ file_num = 1
    /\ total_articles \in -1..(MaxStream + 1)
    /\ one_per_file \in BOOLEAN
    /\ saved = <<>>

\* one turn of "for article_num, article in enumerate(get_articles(wikifile))":
\* lines 171-189
NextArticle ==
    /\ fn = "build_corpus_from_wiki"
    /\ pc = "loop"
    /\ consumed < Len(stream)
    /\ consumed' = consumed + 1
    /\ article_num' = consumed
    /\ IF one_per_file
       THEN /\ articles' = <<consumed'>>
            /\ saved' = save_articles(saved, articles', article_num')
            /\ UNCHANGED <<size, file_num>>
       ELSE LET gathered == Append(articles, consumed')
                sz == size + stream[consumed']
            IN IF ReachedThreshold(sz)
               THEN /\ saved' = save_articles(saved, gathered, file_num)
                    /\ size' = 0
                    /\ file_num' = file_num + 1
                    /\ articles' = <<>>
               ELSE /\ articles' = gathered
                    /\ size' = sz
                    /\ UNCHANGED <<saved, file_num>>
    /\ pc' = IF StopReached(article_num', total_articles) THEN "after_loop" ELSE "loop"
    /\ UNCHANGED <<fn, text, correct, wiki, min_sentence_size, ret, ret2, sentences,
                   candidates, rounds, stream, total_articles, one_per_file>>

\* the generator is exhausted: the for loop ends without a break
EndOfStream ==
    /\ fn = "build_corpus_from_wiki"
    /\ pc = "loop"
    /\ consumed = Len(stream)
    /\ pc' = "after_loop"
    /\ UNCHANGED <<fn, text, correct, wiki, min_sentence_size, ret, ret2, sentences,
                   candidates, rounds>>
    /\ UNCHANGED bvars

\* lines 191-194: the last file, then the log line, which reads article_num and
\* raises UnboundLocalError when the loop body never ran
LastFile ==
    /\ fn = "build_corpus_from_wiki"
    /\ pc = "after_loop"
    /\ IF size > 0 /\ ~one_per_file
       THEN saved' = save_articles(saved, articles, file_num)
       ELSE UNCHANGED saved
    /\ pc' = IF article_num = -1 THEN "raised" ELSE "done"
    /\ UNCHANGED <<fn, text, correct, wiki, min_sentence_size, ret, ret2, sentences,
                   candidates, rounds, stream, consumed, article_num, articles, size,
                   file_num, total_articles, one_per_file>>

NextBuild == NextArticle \/ EndOfStream \/ LastFile

SpecBuild == InitBuild /\ [][NextBuild]_vars

-----------------------------------------------------------------------------
(* Properties of clean_text *)

\* C3 as stated: clean_text is idempotent for a fixed value of correct, on every
\* string: the second call returns what the first returned.
C3_Idempotent == pc = "twice" => ret2 = ret

-----------------------------------------------------------------------------
(* Properties of tokenize *)

\* the sentences that reach the lexical scan, in order
ScannedSentences ==
    LET Test(p) == IsScanned(p, wiki) IN SelectSeq(sentences, Test)

RECURSIVE Concat(_)
Concat(ss) == IF ss = <<>> THEN <<>> ELSE Head(ss) \o Concat(Tail(ss))

WithoutSpaces(p) == LET Test(c) == c \notin Space IN SelectSeq(p, Test)

\* the image in sentence p of a split at the hyphen i: a word character, the
\* hyphen, the inserted space, and the pronoun pr not followed by \w or -
IsSplitAt(p, i, pr) ==
    /\ i > 1 /\ IsAt(p, i, {"-"}) /\ p[i - 1] \in UWord
    /\ IsAt(p, i + 1, {" "})
    /\ At(p, i + 2, pr)
    /\ NotFollowedByWordOrHyphen(p, i + 2 + Len(pr))

\* the span sp[k] is the stem with its hyphen at i, and sp[k+1] the pronoun
StemThenPronoun(sp, i, pr) ==
    \E k \in 1..(Len(sp) - 1) :
        /\ sp[k][2] = i + 1
        /\ sp[k][1] < i
        /\ sp[k + 1] = <<i + 2, i + 2 + Len(pr)>>

\* C5 as stated: where a hyphen after a word character is followed by one of the
\* pronouns, itself not followed by a word character or a hyphen, the stem is
\* emitted as one token ending in the hyphen and the pronoun as the next token;
\* every other hyphen between two letters stays inside one token.
C5_CliticTokens ==
    pc = "done" =>
        \A n \in 1..Len(ScannedSentences) :
            LET p == ScannedSentences[n]
                sp == ScanSpans(p)
            IN /\ \A i \in 1..Len(p) : \A pr \in Pronouns :
                      IsSplitAt(p, i, pr) => StemThenPronoun(sp, i, pr)
               /\ \A i \in 2..(Len(p) - 1) :
                      (p[i] = "-" /\ p[i - 1] \in UAlpha /\ p[i + 1] \in UAlpha)
                      => \E k \in 1..Len(sp) : sp[k][1] < i /\ i + 1 < sp[k][2]

\* C6: for every sentence passed to the lexical scan, the tokens are non-empty
\* slices of the sentence taken left to right without overlap, and their
\* concatenation is the sentence with its white space removed.
C6_TokensCoverSentence ==
    pc = "done" =>
        /\ Len(candidates) = Len(ScannedSentences)
        /\ \A n \in 1..Len(ScannedSentences) :
              LET p == ScannedSentences[n]
                  sp == ScanSpans(p)
                  toks == candidates[n]
              IN /\ Len(toks) = Len(sp)
                 /\ \A k \in 1..Len(sp) :
                       /\ 1 <= sp[k][1] /\ sp[k][1] < sp[k][2] /\ sp[k][2] <= Len(p) + 1
                       /\ toks[k] = Slice(p, sp[k][1], sp[k][2])
                       /\ toks[k] # <<>>
                 /\ \A k \in 1..(Len(sp) - 1) : sp[k][2] <= sp[k + 1][1]
                 /\ Concat(toks) = WithoutSpaces(p)

\* a sentence with white space, a word and a symbol has been scanned into
\* several tokens
C6_Witness ==
    /\ pc = "done"
    /\ \E n \in 1..Len(ScannedSentences) :
          /\ Contains(ScannedSentences[n], <<" ">>)
          /\ Len(candidates[n]) >= 2
          /\ \E k \in 1..Len(candidates[n]) : candidates[n][k] \in {<<",">>, <<"$">>, <<"#">>}
          /\ \E k \in 1..Len(candidates[n]) : Len(candidates[n][k]) >= 2

\* C8: with min_sentence_size n > 0, tokenize returns exactly the scanned
\* sentences that hold at least n tokens, in their order.
C8_SizeFilter ==
    (pc = "done" /\ min_sentence_size > 0) =>
        LET Test(sent) == Len(sent) >= min_sentence_size
        IN ret = SelectSeq(candidates, Test)

\* with a positive threshold, one scanned sentence was dropped for its size, one
\* with exactly the threshold's number of tokens was kept
C8_Witness ==
    /\ pc = "done"
    /\ min_sentence_size > 1
    /\ \E n \in 1..Len(candidates) : Len(candidates[n]) = min_sentence_size - 1
    /\ \E n \in 1..Len(ret) : Len(ret[n]) = min_sentence_size
    /\ Len(ret) < Len(candidates)

\* the maximal runs of non-space characters of p, as <<start, end>>
DelimitedWords(p) ==
    {<<a, b>> \in (1..Len(p)) \X (2..(Len(p) + 1)) :
        /\ a < b
        /\ \A x \in a..(b - 1) : p[x] \notin Space
        /\ (a = 1 \/ p[a - 1] \in Space)
        /\ (b = Len(p) + 1 \/ p[b] \in Space)}

\* C9 as stated: each title abbreviation (Dr., Sr., Sra., Dra., any letter case)
\* and each degree abbreviation (M.Sc., Ph.D., any letter case, with or without
\* the dots) that stands as a white-space-delimited word of a scanned sentence
\* is exactly one token.
C9_AbbreviationsAreOneToken ==
    pc = "done" =>
        \A n \in 1..Len(ScannedSentences) :
            LET p == ScannedSentences[n]
                sp == ScanSpans(p)
            IN \A w \in DelimitedWords(p) :
                  Slice(p, w[1], w[2]) \in (TitleWords \cup DegreeWords)
                  => \E k \in 1..Len(sp) : sp[k] = w

-----------------------------------------------------------------------------
(* Properties of filter_markup *)

Returned == fn = "filter_markup" /\ pc = "done"

Opener(c) == CHOOSE o \in {<<"{", "{">>, <<"[", "[">>, <<"{", "|">>} :
                 \/ (c = <<"}", "}">> /\ o = <<"{", "{">>)
                 \/ (c = <<"]", "]">> /\ o = <<"[", "[">>)
                 \/ (c = <<"|", "}">> /\ o = <<"{", "|">>)

\* reading s from i with the openers of stack still open, every opener finds
\* its closer, properly nested, and no closer is left over
RECURSIVE BalancedFrom(_, _, _)
BalancedFrom(s, i, stack) ==
    IF i > Len(s) THEN stack = <<>>
    ELSE IF \E o \in {<<"{", "{">>, <<"[", "[">>, <<"{", "|">>} : At(s, i, o)
         THEN BalancedFrom(s, i + 2, <<Slice(s, i, i + 2)>> \o stack)
    ELSE IF \E c \in {<<"}", "}">>, <<"]", "]">>, <<"|", "}">>} : At(s, i, c)
         THEN /\ stack # <<>>
              /\ Head(stack) = Opener(Slice(s, i, i + 2))
              /\ BalancedFrom(s, i + 2, Tail(stack))
    ELSE BalancedFrom(s, i + 1, stack)

Balanced(s) == BalancedFrom(s, 1, <<>>)

BracketPairs ==
    {<<"{", "{">>, <<"}", "}">>, <<"[", "[">>, <<"]", "]">>, <<"{", "|">>, <<"|", "}">>}

\* C1: whenever every {{, [[ and {| of the input has its properly nested closer
\* and the input does not start with a redirect or disambiguation marker, the
\* string filter_markup returns contains none of {{ }} [[ ]] {| |}.
C1_NoBracketResidue ==
    (Returned /\ Balanced(text) /\ ~IsUnwantedPage(text))
        => \A b \in BracketPairs : ~Contains(ret, b)

\* the text is a piped link to a file, with target t and caption cap, alone or
\* between two pieces of running text
IsPipedFileLink(s, t, cap) ==
    \E c \in LinkContexts \X LinkContexts :
        s = c[1] \o <<"[", "[">> \o t \o <<"|">> \o cap \o <<"]", "]">> \o c[2]

\* C2: a piped link whose target names a file namespace is removed whole by
\* filter_markup: neither its target nor its caption appears in the output.
C2_FileLinkDiscarded ==
    \A t \in LinkTargets \ {<<"B", "r">>}, cap \in LinkCaptions :
        (Returned /\ IsPipedFileLink(text, t, cap))
            => ~Contains(ret, t) /\ ~Contains(ret, cap)

\* reading s from i inside depth open templates: s is one template whose
\* content is text free of braces and templates of the same kind
RECURSIVE NestedFrom(_, _, _)
NestedFrom(s, i, depth) ==
    IF i > Len(s) THEN depth = 0 /\ Len(s) > 0
    ELSE IF At(s, i, <<"{", "{">>)
         THEN (i = 1 \/ depth >= 1) /\ NestedFrom(s, i + 2, depth + 1)
    ELSE IF At(s, i, <<"}", "}">>)
         THEN depth >= 1 /\ (depth = 1 => i + 2 > Len(s)) /\ NestedFrom(s, i + 2, depth - 1)
    ELSE s[i] \notin {"{", "}"} /\ depth >= 1 /\ NestedFrom(s, i + 1, depth)

IsNestedTemplate(s) == NestedFrom(s, 1, 0)

\* the number of times lit occurs in s
Occurrences(s, lit) == Cardinality({i \in 1..Len(s) : At(s, i, lit)})

Collapsed(s) ==
    /\ Occurrences(s, TemplateSentinel) = 1
    /\ \A i \in 1..Len(s) : s[i] \notin {"{", "}"}

\* C4 as stated: for every input that is a single properly nested template, the
\* loop ends and the result holds exactly one __TEMPLATE__ and no brace.
C4_NestedTemplateCollapses ==
    (Returned /\ IsNestedTemplate(text)) => (rounds >= 1 /\ Collapsed(ret))

\* C7: for every input that starts with the redirect marker or with the
\* disambiguation marker, filter_markup returns the empty string.
C7_UnwantedPageGivesEmpty ==
    (Returned /\ (StartsWith(text, RedirectMarker) \/ StartsWith(text, DisambiguationMarker)))
        => ret = <<>>

\* a disambiguation page with markup after the marker has been filtered
C7_Witness ==
    /\ Returned
    /\ StartsWith(text, DisambiguationMarker)
    /\ Contains(text, <<"[", "[">>)
    /\ ret = <<>>

\* C10: when the input does not start with a redirect or disambiguation
\* marker, no line of the output begins with one of the markers * # : ;
C10_NoListLines ==
    (Returned /\ ~IsUnwantedPage(text))
        => \A i \in 1..Len(ret) :
               (i = 1 \/ ret[i - 1] = "\n") => ret[i] \notin ListMarkers

-----------------------------------------------------------------------------
(* Properties of build_corpus_from_wiki *)

\* the number of articles the loop is to take from the stream
ToConsume ==
    IF total_articles >= 1 /\ total_articles < Len(stream)
    THEN total_articles ELSE Len(stream)

\* the articles of the calls in calls, one after the other
RECURSIVE SavedArticles(_)
SavedArticles(calls) ==
    IF calls = <<>> THEN <<>> ELSE Head(calls)[1] \o SavedArticles(Tail(calls))

====
